---- MODULE Spec2Model ----
(***************************************************************************)
(* The Axess AI chat participant: the four builds of the chat request      *)
(* handler (explicit switch, detectIntent, analyzeIntent, and the combined *)
(* handler of the current extension), the formatters they store scan       *)
(* results with, and the guards of the API client.                         *)
(*                                                                         *)
(* Text is a sequence of atoms.  An atom is a run of characters that the   *)
(* code's string operations never split: a word, one digit, one space, one *)
(* punctuation mark, or a URL scheme with its "://".                       *)
(***************************************************************************)
EXTENDS Integers, Sequences, FiniteSets, TLC

VARIABLES
    variant,         \* which build of the handler is registered
    globalState,     \* extensionContext.globalState (the keys the handler uses)
    pc,              \* where the handler invocation stands (an await point)
    request,         \* the vscode.ChatRequest of the turn: command, prompt
    local,           \* the handler's local variables
    intentAnalysis,  \* the resolved intent of the turn
    stream,          \* what the turn wrote with stream.markdown, in order
    calls,           \* the network requests the turn issued, in order
    thrown,          \* the handler's promise rejected
    turns,           \* chat turns started so far
    scans,           \* the scans that stored something, oldest first
    appended,        \* every command name a history update stored, in order
    session,         \* the chat session the running invocation serves
    cancelled,       \* token.isCancellationRequested of the running invocation
    before,          \* the stored keys as they were when the turn arrived
    parked,          \* a second invocation of the handler, suspended at an await
    init             \* initializeExtension: where it stands and its locals

vars == <<variant, globalState, pc, request, local, intentAnalysis, stream,
          calls, thrown, turns, scans, appended, session, cancelled, before, parked,
          init>>

(* What the steps inside one invocation leave alone. *)
frame == <<session, cancelled, before, parked, init>>

----------------------------------------------------------------------------
(* Bounds *)

MaxTurns == 3
MaxHistTurns == 15
MaxUtterLen == 3
MaxDetectTurns == 2
MaxSharedTurns == 3
MaxLiveTurns == 2
MaxInitTurns == 2

(* Program constants *)

HistoryKeep == 10
ContextKeep == 5

(* Mutant: timeout 0, with which axios sets no timer. *)
NoTimeout == 1 - 1

(* const TIMEOUT = 120000, the timeout option of every axios.post. *)
TIMEOUT == 120000

----------------------------------------------------------------------------
(* Optional values: undefined / NaN is <<>>, a value x is <<x>>. *)

None == <<>>
Some(x) == <<x>>
IsSome(o) == o # <<>>
Val(o) == o[1]

Min(a, b) == IF a <= b THEN a ELSE b
Max(a, b) == IF a >= b THEN a ELSE b

(* Array.prototype.slice(-n): the last min(n, len) elements, in order. *)
SliceLast(s, n) == SubSeq(s, Max(1, Len(s) - n + 1), Len(s))

----------------------------------------------------------------------------
(* Atoms and the string operations of the handlers *)

Space == " "
SchemeAtoms == {"http://", "https://", "HTTP://"}
LowerSchemeAtoms == {"http://", "https://"}
DigitAtoms == {"0", "1", "2", "3"}
WordAtoms == {"fix", "Fix", "issue", "prefix", "how", "a.com"}
PunctAtoms == {"#", "-", "{", "}"}
Atoms == {Space} \cup SchemeAtoms \cup DigitAtoms \cup WordAtoms \cup PunctAtoms

DigitVal(a) == CASE a = "0" -> 0 [] a = "1" -> 1 [] a = "2" -> 2 [] a = "3" -> 3

(* String.prototype.toLowerCase, atom by atom. *)
LowerAtom(a) == CASE a = "HTTP://" -> "http://"
                  [] a = "Fix" -> "fix"
                  [] OTHER -> a
toLowerCase(s) == [i \in 1..Len(s) |-> LowerAtom(s[i])]

(* String.prototype.trim: drop leading and trailing whitespace. *)
RECURSIVE TrimLeft(_)
TrimLeft(s) == IF s # <<>> /\ Head(s) = Space THEN TrimLeft(Tail(s)) ELSE s
RECURSIVE TrimRight(_)
TrimRight(s) == IF s # <<>> /\ s[Len(s)] = Space
                THEN TrimRight(SubSeq(s, 1, Len(s) - 1)) ELSE s
trim(s) == TrimRight(TrimLeft(s))

(* \w at the first / last character of an atom (for the regex \b). *)
StartsWord(a) == a \in WordAtoms \cup DigitAtoms \cup SchemeAtoms
EndsWord(a) == a \in WordAtoms \cup DigitAtoms

(* The end of the maximal run of digits / of non-whitespace starting at i. *)
IsDigit(a) == a \in DigitAtoms
RECURSIVE DigitRunEnd(_, _)
DigitRunEnd(s, i) == IF i < Len(s) /\ IsDigit(s[i + 1]) THEN DigitRunEnd(s, i + 1) ELSE i
RECURSIVE TokenEnd(_, _)
TokenEnd(s, i) == IF i < Len(s) /\ s[i + 1] # Space THEN TokenEnd(s, i + 1) ELSE i

(* The decimal value of a run of digit atoms. *)
RECURSIVE DigitsValue(_)
DigitsValue(d) == IF d = <<>> THEN 0
                  ELSE 10 * DigitsValue(SubSeq(d, 1, Len(d) - 1)) + DigitVal(d[Len(d)])

(* parseInt(s, 10): skip leading whitespace, an optional sign, then the   *)
(* longest run of digits; NaN (None) when no digit follows.               *)
parseInt(s) ==
    LET t == TrimLeft(s)
        neg == t # <<>> /\ Head(t) = "-"
        u == IF neg THEN Tail(t) ELSE t
    IN  IF u = <<>> \/ ~IsDigit(Head(u)) THEN None
        ELSE LET v == DigitsValue(SubSeq(u, 1, DigitRunEnd(u, 1)))
             IN  Some(IF neg THEN 0 - v ELSE v)

----------------------------------------------------------------------------
(* The regular expressions of detectIntent and of its handler *)

(* /https?:\/\/[^\s]+/ : the places where a match starts. *)
UrlStarts(q) == {i \in 1..Len(q) : /\ q[i] \in LowerSchemeAtoms
                                   /\ i < Len(q)
                                   /\ q[i + 1] # Space}
urlPatternTest(q) == UrlStarts(q) # {}
FirstOf(S) == CHOOSE i \in S : \A j \in S : i <= j
LastOf(S) == CHOOSE i \in S : \A j \in S : i >= j
urlPatternMatch(q) == LET i == FirstOf(UrlStarts(q)) IN SubSeq(q, i, TokenEnd(q, i))

(* /\b\d+\b/ : the places where a match starts. *)
BareIntStarts(q) == {i \in 1..Len(q) : /\ IsDigit(q[i])
                                       /\ (i = 1 \/ ~EndsWord(q[i - 1]))
                                       /\ LET e == DigitRunEnd(q, i)
                                          IN  e = Len(q) \/ ~StartsWord(q[e + 1])}
(* Mutant: the last integer of the utterance is taken. *)
issueMatchLast(q) == IF BareIntStarts(q) = {} THEN None
                     ELSE LET i == LastOf(BareIntStarts(q))
                          IN  Some(DigitsValue(SubSeq(q, i, DigitRunEnd(q, i))))

(* content.match(/\b(\d+)\b/): the first match, parsed; None without one. *)
issueMatch(q) == IF BareIntStarts(q) = {} THEN None
                 ELSE LET i == FirstOf(BareIntStarts(q))
                      IN  Some(DigitsValue(SubSeq(q, i, DigitRunEnd(q, i))))

(* /fix|issue|problem|error|violation|#\d+|\b\d+\b/ *)
FixKeywords == {"fix", "issue", "problem", "error", "violation"}
(* The pattern is not anchored: a keyword inside a longer word matches. *)
ContainsFixKeyword(a) == a \in FixKeywords \cup {"prefix"}
fixPatternTest(q) ==
    \/ \E i \in 1..Len(q) : ContainsFixKeyword(q[i])
    \/ \E i \in 1..Len(q) : q[i] = "#" /\ i < Len(q) /\ IsDigit(q[i + 1])
    \/ BareIntStarts(q) # {}

(* Mutant: the fix keywords are looked for before the URL. *)
detectIntentFixFirst(query) ==
    LET q == trim(toLowerCase(query))
    IN  IF fixPatternTest(q) THEN [command |-> "fix", content |-> q]
        ELSE IF urlPatternTest(q)
        THEN [command |-> "scan", content |-> urlPatternMatch(q)]
        ELSE [command |-> "explain", content |-> q]

(* Mutant: the fallback keeps the utterance as it was typed. *)
detectIntentRawTopic(query) ==
    LET q == trim(toLowerCase(query))
    IN  IF urlPatternTest(q) THEN [command |-> "scan", content |-> urlPatternMatch(q)]
        ELSE IF fixPatternTest(q) THEN [command |-> "fix", content |-> q]
        ELSE [command |-> "explain", content |-> query]

(* detectIntent(query) *)
detectIntent(query) ==
    LET q == trim(toLowerCase(query))
    IN  IF urlPatternTest(q) THEN [command |-> "scan", content |-> urlPatternMatch(q)]
        ELSE IF fixPatternTest(q) THEN [command |-> "fix", content |-> q]
        ELSE [command |-> "explain", content |-> q]

----------------------------------------------------------------------------
(* URLs *)

(* new URL(s) does not throw.  The parser strips surrounding whitespace,   *)
(* needs a scheme, and for http(s) a non-empty host without whitespace;    *)
(* the host ends at "#", or at the ":" of a later "http://".               *)
HostStops(r) == {k \in 1..Len(r) : r[k] = "#" \/ r[k] \in SchemeAtoms}
UrlParses(s) ==
    LET t == trim(s)
    IN  /\ t # <<>>
        /\ Head(t) \in SchemeAtoms
        /\ LET r == Tail(t)
               k == IF HostStops(r) = {} THEN Len(r) + 1 ELSE FirstOf(HostStops(r))
               host == SubSeq(r, 1, k - 1)
           IN  /\ \A i \in 1..Len(host) : host[i] # Space
               /\ (host # <<>> \/ (k <= Len(r) /\ r[k] \in SchemeAtoms))

(* normalizeUrl(url) *)
normalizeUrl(url) ==
    LET u == trim(url)
    IN  IF u # <<>> /\ Head(u) \in LowerSchemeAtoms THEN u ELSE <<"https://">> \o u

----------------------------------------------------------------------------
(* Scan responses and the formatters *)

Issue(n) == [id |-> n, help |-> "help-" \o n, html |-> "html-" \o n]
Group(sev, issues) == [severity |-> sev, issues |-> issues]

(* raw_violations is the sequence of the response object's entries, in the *)
(* order of its keys (the order Object.entries gives); None when absent.   *)
ScanResponses ==
    { [scan_result |-> "clean", raw_violations |-> None],
      [scan_result |-> "one", raw_violations |->
          Some(<<Group("serious", <<>>), Group("minor", <<Issue("c")>>)>>)],
      [scan_result |-> "two", raw_violations |->
          Some(<<Group("critical", <<Issue("a")>>), Group("minor", <<Issue("b")>>)>>)],
      [scan_result |-> "three", raw_violations |->
          Some(<<Group("minor", <<Issue("b")>>),
                 Group("critical", <<Issue("a"), Issue("c")>>)>>)] }

NoResponse == [scan_result |-> "", raw_violations |-> None]

(* The issues of the response, group after group in the order of its keys; *)
(* a group that is empty adds nothing.                                     *)
RECURSIVE FlattenGroups(_)
FlattenGroups(groups) ==
    IF groups = <<>> THEN <<>>
    ELSE LET g == Head(groups)
         IN  [i \in 1..Len(g.issues) |-> [severity |-> g.severity, issue |-> g.issues[i]]]
             \o FlattenGroups(Tail(groups))

Entries(scanResponse) ==
    IF IsSome(scanResponse.raw_violations)
    THEN FlattenGroups(Val(scanResponse.raw_violations)) ELSE <<>>

(* formatScanResults: the summary line, then one line per issue. *)
formatScanResults(scanResponse) ==
    LET e == Entries(scanResponse)
    IN  <<[severity |-> "", text |-> scanResponse.scan_result]>>
        \o [i \in 1..Len(e) |-> [severity |-> e[i].severity, text |-> e[i].issue.help]]

(* extractDetailedScanResults: the summary and the issues' id, help, html. *)
extractDetailedScanResults(scanResponse) ==
    LET e == Entries(scanResponse)
    IN  [summary |-> scanResponse.scan_result,
         violations |-> [i \in 1..Len(e) |-> e[i].issue]]

NoDetailedScanResults == [summary |-> "", violations |-> <<>>]

(* Mutant: the new violations are pushed onto the ones read from the state. *)
mergedDetailedScanResults(lc, scanResponse) ==
    [summary |-> scanResponse.scan_result,
     violations |-> lc.detailedScanResults.violations
                    \o extractDetailedScanResults(scanResponse).violations]

(* detailedScanResults = extractDetailedScanResults(scanResponse): the     *)
(* local is assigned anew, whatever it held.                               *)
newDetailedScanResults(lc, scanResponse) == extractDetailedScanResults(scanResponse)

----------------------------------------------------------------------------
(* The inputs of a turn and the answers of the collaborators *)

Variants == {"switch", "detect", "analyze", "combined"}

NoCommand == ""
Commands == {"scan", "fix", "explain", NoCommand}
SlashCommands == {"scan", "fix", "explain"}

MainPrompts ==
    { <<>>,
      <<"a.com">>,
      <<"https://", "a.com">>,
      <<" ", "2", "fix">>,
      <<"3">>,
      <<"0">>,
      <<"-", "1">>,
      <<"how">> }

(* Topics that begin with a brace. *)
BracePrompts == { <<"{", "}">>, <<"{", "how">> }

Request(c, p) == [command |-> c, prompt |-> p]

(* The requests tried per build.  The detectIntent and analyzeIntent      *)
(* builds never read request.command, and the analyze-intent path never   *)
(* looks into the prompt, so fewer of these are tried there.              *)
MainInputs ==
    [v \in Variants |->
        CASE v = "switch" -> {Request(c, p) : c \in Commands, p \in MainPrompts}
                             \cup {Request("explain", p) : p \in BracePrompts}
          [] v = "detect" -> {Request(c, p) : c \in {NoCommand, "fix"}, p \in MainPrompts}
          [] v = "analyze" -> {Request(c, <<"how">>) : c \in {NoCommand, "scan"}}
          [] v = "combined" -> {Request(c, p) : c \in SlashCommands, p \in MainPrompts}
                               \cup {Request(NoCommand, <<"how">>)}
                               \cup {Request("explain", p) : p \in BracePrompts}]

NoMetadata == [url |-> None, issue_number |-> None, topic |-> None]
Intent(c, content, md) == [command |-> c, content |-> content, metadata |-> md]
NoIntent == Intent("", <<>>, NoMetadata)

(* What analyze-intent may answer: response.data is used as it comes. *)
IntentResults ==
    { Intent("scan", <<>>, [NoMetadata EXCEPT !.url = Some(<<"https://", "a.com">>)]),
      Intent("scan", <<"a.com", " ", "how">>, NoMetadata),
      Intent("scan", <<>>, NoMetadata),
      Intent("fix", <<"fix">>, NoMetadata),
      Intent("fix", <<>>, [NoMetadata EXCEPT !.issue_number = Some(0)]),
      Intent("fix", <<>>, [NoMetadata EXCEPT !.issue_number = Some(1)]),
      Intent("fix", <<>>, [NoMetadata EXCEPT !.issue_number = Some(2)]),
      Intent("fix", <<>>, [NoMetadata EXCEPT !.issue_number = Some(3)]),
      Intent("explain", <<>>, [NoMetadata EXCEPT !.topic = Some(<<"how">>)]),
      Intent("explain", <<>>, NoMetadata),
      Intent("chat", <<"how">>, NoMetadata) }

(* What the fix / explain endpoint may answer. *)
(* The fields of an AccessibilityResponse, in the order the formatter      *)
(* checks them.                                                           *)
fields == <<"answer", "explanation", "guidelines", "examples">>

(* What /api/accessibility/fix or /explain answers: an object with some   *)
(* of the fields, or something that is not an object.                     *)
ApiResponse(isObject, present) == [object |-> isObject, present |-> present]
NoApiResponse == ApiResponse(FALSE, {})
QueryResponses ==
    { ApiResponse(TRUE, {"answer", "explanation", "guidelines", "examples"}),
      ApiResponse(TRUE, {"answer", "guidelines", "examples"}),
      ApiResponse(TRUE, {"explanation"}),
      ApiResponse(TRUE, {}),
      NoApiResponse }

(* Stored configuration: nothing yet, the default endpoint without a key, *)
(* or the endpoint and the key.                                           *)
Configs == { [apiUrl |-> "", apiKey |-> ""],
             [apiUrl |-> "http://localhost:8000", apiKey |-> ""],
             [apiUrl |-> "http://localhost:8000", apiKey |-> "sk-key"] }

----------------------------------------------------------------------------
(* Messages and requests *)

(* A message names response fields only when it reports missing ones.     *)
Msg(kind, detail) == [kind |-> kind, detail |-> detail, fields |-> <<>>]
Guidance(detail) == Msg("guidance", detail)
ErrorMsg(detail) == Msg("error", detail)

NoViolation == [id |-> "", help |-> "", html |-> ""]
(* The JSON body of a request: {url: text}, {query: text}, or the object   *)
(* that JSON.parse made of the text.                                      *)
Body(kind, value) == [kind |-> kind, value |-> value]

Call(endpoint, text, violation, previous_commands) ==
    [endpoint |-> endpoint, text |-> text, violation |-> violation,
     previous_commands |-> previous_commands,
     body |-> Body(IF endpoint = "scan" THEN "url" ELSE "query", text)]

(* JSON.parse(query) of a text that starts with "{": the text is an object *)
(* when a "}" closes it with only whitespace between; anything else       *)
(* throws (None).                                                         *)
JSONparse(query) ==
    LET inner == trim(SubSeq(query, 2, Len(query)))
    IN  IF inner = <<"}">> THEN Some(Body("json", <<"{", "}">>)) ELSE None

(* const queryData = query.startsWith("{") ? JSON.parse(query) : { query } *)
queryData(query) ==
    IF query # <<>> /\ Head(query) = "{" THEN JSONparse(query)
    ELSE Some(Body("query", query))

(* The end of a synchronous stretch of the handler: where it stands next,  *)
(* what it wrote and what it requested meanwhile.                          *)
Stretch(where, msgs, reqs) == [pc |-> where, stream |-> msgs, calls |-> reqs]

(* The same for a case of the switch, with the name of the case. *)
InCase(case, st) == [pc |-> st.pc, stream |-> st.stream, calls |-> st.calls, case |-> case]

----------------------------------------------------------------------------
(* The handler's locals *)

NoLocal == [userQuery |-> <<>>, case |-> "", scanResults |-> <<>>,
            detailedScanResults |-> NoDetailedScanResults,
            apiUrl |-> "", apiKey |-> "", previousCommands |-> <<>>,
            scanResponse |-> NoResponse, apiResponse |-> NoApiResponse]

(* const userQuery = request.prompt.trim() and the globalState.get calls. *)
ReadState(gs, lc) ==
    [lc EXCEPT !.scanResults = gs.scanResults,
               !.detailedScanResults = gs.detailedScanResults,
               !.apiUrl = gs.apiUrl,
               !.apiKey = gs.apiKey,
               !.previousCommands = gs.previousCommands]

(* a || b on strings: a unless it is undefined or empty. *)
OrElse(a, b) == IF IsSome(a) /\ Val(a) # <<>> THEN Val(a) ELSE b

(* arr[j] of a JavaScript array: None (undefined) outside 0..length-1. *)
ArrayAt(arr, j) == IF j >= 0 /\ j < Len(arr) THEN Some(arr[j + 1]) ELSE None

(* Mutant: the guard is left out. *)
ConfiguredUnchecked(apiUrl, apiKey) == TRUE

(* The guard of performAccessibilityScan and analyzeIntent. *)
Configured(apiUrl, apiKey) == apiKey # "" /\ apiUrl # ""

----------------------------------------------------------------------------
(* The cases of the switch *)

(* case "scan": url is the URL candidate; normalizes tells whether the    *)
(* build passes it through normalizeUrl first.                            *)
scanCase(lc, url, normalizes) == InCase("scan",
    IF url = <<>>
    THEN Stretch("done", <<Guidance("provide-url")>>, <<>>)
    ELSE LET target == IF normalizes THEN normalizeUrl(url) ELSE url
         IN  IF ~UrlParses(target)
             THEN Stretch("done", <<Guidance("invalid-url")>>, <<>>)
             ELSE IF ~Configured(lc.apiUrl, lc.apiKey)
             THEN Stretch("done", <<Msg("progress", "scanning"), ErrorMsg("scan")>>, <<>>)
             ELSE Stretch("scan", <<Msg("progress", "scanning")>>,
                          <<Call("scan", target, NoViolation, <<>>)>>))

(* The range check of case "fix" on fixIndex (None is NaN). *)
fixIndexRejected(lc, fixIndex) ==
    \/ ~IsSome(fixIndex)
    \/ Val(fixIndex) < 0
    \/ Val(fixIndex) >= Len(lc.scanResults)

(* Mutant: the check for missing scan results is left out. *)
noScanResultsSkipped(lc) == FALSE

(* Mutant: the summary line is not accounted for. *)
violationIndexNoOffset(fixIndex) == fixIndex

(* if (scanResults.length === 0) *)
noScanResults(lc) == Len(lc.scanResults) = 0

(* violations[fixIndex - 1]: "Subtract 1 to account for summary line". *)
violationIndex(fixIndex) == fixIndex - 1

(* case "fix" *)
fixCase(lc, fixIndex) == InCase("fix",
    IF noScanResults(lc)
    THEN Stretch("done", <<Guidance("scan-first")>>, <<>>)
    ELSE IF fixIndexRejected(lc, fixIndex)
    THEN Stretch("done", <<Guidance("invalid-issue")>>, <<>>)
    ELSE LET violation == ArrayAt(lc.detailedScanResults.violations,
                                      violationIndex(Val(fixIndex)))
         IN  IF ~IsSome(violation)
             THEN Stretch("done", <<Guidance("no-detail")>>, <<>>)
             ELSE Stretch("query", <<>>, <<Call("fix", <<>>, Val(violation), <<>>)>>))

(* case "explain" *)
explainCase(lc, topic) == InCase("explain",
    IF topic = <<>>
    THEN Stretch("done", <<Guidance("no-topic")>>, <<>>)
    ELSE IF ~IsSome(queryData(topic))
    THEN Stretch("done", <<ErrorMsg("request-failed")>>, <<>>)
    ELSE Stretch("query", <<>>,
                 <<[Call("explain", topic, NoViolation, <<>>)
                       EXCEPT !.body = Val(queryData(topic))]>>))

(* intentAnalysis.metadata?.issue_number || -1 *)
issueNumberOrMinusOne(ia) ==
    IF IsSome(ia.metadata.issue_number) /\ Val(ia.metadata.issue_number) # 0
    THEN ia.metadata.issue_number ELSE Some(0 - 1)

(* issueMatch ? parseInt(issueMatch[1], 10) : -1 *)
issueMatchOrMinusOne(content) ==
    IF IsSome(issueMatch(content)) THEN issueMatch(content) ELSE Some(0 - 1)

(* Mutant: an unparsable issue number falls back to the first issue. *)
switchOnRequestDefaulting(lc, req) ==
    CASE req.command = "scan" -> scanCase(lc, req.prompt, FALSE)
      [] req.command = "fix" ->
            fixCase(lc, IF IsSome(parseInt(req.prompt))
                        THEN parseInt(req.prompt) ELSE Some(1))
      [] OTHER -> explainCase(lc, req.prompt)

(* switch (request.command) of the first build; explain is the default. *)
switchOnRequest(lc, req) ==
    CASE req.command = "scan" -> scanCase(lc, req.prompt, FALSE)
      [] req.command = "fix" -> fixCase(lc, parseInt(req.prompt))
      [] OTHER -> explainCase(lc, req.prompt)

(* switch (command) of the detectIntent build. *)
switchOnDetected(lc, ia) ==
    CASE ia.command = "scan" -> scanCase(lc, ia.content, FALSE)
      [] ia.command = "fix" -> fixCase(lc, issueMatchOrMinusOne(ia.content))
      [] ia.command = "explain" -> explainCase(lc, ia.content)
      [] OTHER -> InCase("none", Stretch("done", <<>>, <<>>))

(* switch (intentAnalysis.command) of the analyzeIntent and the combined  *)
(* builds; only the combined build normalizes the URL.  No default case.  *)
switchOnIntent(lc, ia, normalizes) ==
    CASE ia.command = "scan" ->
            scanCase(lc, OrElse(ia.metadata.url, ia.content), normalizes)
      [] ia.command = "fix" -> fixCase(lc, issueNumberOrMinusOne(ia))
      [] ia.command = "explain" ->
            explainCase(lc, OrElse(ia.metadata.topic, ia.content))
      [] OTHER -> InCase("none", Stretch("done", <<>>, <<>>))

(* The intent the combined build makes of a slash command. *)
explicitIntent(req, userQuery) ==
    Intent(req.command, trim(userQuery),
           [NoMetadata EXCEPT !.url = Some(trim(userQuery))])

IsExplicit(v, req) == v = "combined" /\ req.command \in SlashCommands

(* Mutant: the whole history is sent as context. *)
analyzeIntentCallAllCommands(lc) ==
    IF ~Configured(lc.apiUrl, lc.apiKey)
    THEN Stretch("done", <<ErrorMsg("general")>>, <<>>)
    ELSE Stretch("analyzeIntent", <<>>,
                 <<Call("analyze-intent", lc.userQuery, NoViolation,
                        lc.previousCommands)>>)

(* analyzeIntent up to its request: it throws when not configured. *)
analyzeIntentCall(lc) ==
    IF ~Configured(lc.apiUrl, lc.apiKey)
    THEN Stretch("done", <<ErrorMsg("general")>>, <<>>)
    ELSE Stretch("analyzeIntent", <<>>,
                 <<Call("analyze-intent", lc.userQuery, NoViolation,
                        SliceLast(lc.previousCommands, ContextKeep))>>)

(* previousCommands.push(intentAnalysis.command) *)
(* Mutant: the command is pushed twice. *)
pushCommandTwice(lc, ia) ==
    [lc EXCEPT !.previousCommands =
                  Append(Append(lc.previousCommands, ia.command), ia.command)]

(* previousCommands.push(intentAnalysis.command) *)
pushCommand(lc, ia) ==
    [lc EXCEPT !.previousCommands = Append(lc.previousCommands, ia.command)]

(* Mutant: the history is stored without truncation. *)
historyToStoreUntruncated(lc) == lc.previousCommands

(* Mutant: slice(0, 10), which keeps the oldest entries. *)
historyToStoreOldest(lc) ==
    SubSeq(lc.previousCommands, 1, Min(Len(lc.previousCommands), HistoryKeep))

(* previousCommands.slice(-10), the value given to globalState.update. *)
historyToStore(lc) == SliceLast(lc.previousCommands, HistoryKeep)

(* formatAccessibilityResponse, after the handler's own object check. *)
missingFields(response) ==
    SelectSeq(fields, LAMBDA field : field \notin response.present)

formatAccessibilityResponse(response) ==
    IF missingFields(response) # <<>>
    THEN [ErrorMsg("missing-fields") EXCEPT !.fields = missingFields(response)]
    ELSE Msg("answer", "sections")

----------------------------------------------------------------------------
(* Invocations of the handler *)

(* The three keys a turn reads and may write. *)
Snapshot(gs) == [scanResults |-> gs.scanResults,
                 detailedScanResults |-> gs.detailedScanResults,
                 previousCommands |-> gs.previousCommands]
NoSnapshot == [scanResults |-> <<>>,
               detailedScanResults |-> NoDetailedScanResults,
               previousCommands |-> <<>>]

(* One invocation of the async handler: its position, its arguments and   *)
(* its locals.  The handler is re-entrant: while one invocation waits at  *)
(* an await, the participant may be called again.                         *)
Invocation(p, req, lc, ia, st, cs, th, se, ca, bf) ==
    [pc |-> p, request |-> req, local |-> lc, intentAnalysis |-> ia,
     stream |-> st, calls |-> cs, thrown |-> th, session |-> se,
     cancelled |-> ca, before |-> bf]

NoInvocation ==
    Invocation("idle", Request(NoCommand, <<>>), NoLocal, NoIntent,
               <<>>, <<>>, FALSE, 1, FALSE, NoSnapshot)

InFlight(inv) == inv.pc \notin {"idle", "done"}

----------------------------------------------------------------------------
(* The state after activate(), on a first run or with a stored configuration *)

(* config.get("apiEndPoint") || "http://localhost:8000" *)
apiEndPoint == "http://localhost:8000"

(* initializeExtension: the await it stands at ("finished" once it has    *)
(* returned, "failed" once it has thrown), its locals apiUrl and apiKey,  *)
(* and the two keys as the store held them when the extension activated.  *)
Initialization(at, apiUrl, apiKey, old) ==
    [pc |-> at, apiUrl |-> apiUrl, apiKey |-> apiKey, old |-> old]

(* The store with no scan and no history, holding the keys of c. *)
Store(c) == [scanResults |-> <<>>,
             detailedScanResults |-> NoDetailedScanResults,
             previousCommands |-> <<>>,
             apiUrl |-> c.apiUrl, apiKey |-> c.apiKey]

(* The store after activation with initialization out of the way: it has  *)
(* stored its keys and returned, or (no apiUrl stored yet) its input box  *)
(* stays open.                                                            *)
InitOf(builds) ==
    /\ variant \in builds
    /\ \E c \in Configs :
        /\ globalState = Store(c)
        /\ init = Initialization(IF c.apiUrl = "" THEN "showInputBox" ELSE "finished",
                                 apiEndPoint, c.apiKey, c)
    /\ pc = "idle"
    /\ request = Request(NoCommand, <<>>)
    /\ local = NoLocal
    /\ intentAnalysis = NoIntent
    /\ stream = <<>>
    /\ calls = <<>>
    /\ thrown = FALSE
    /\ turns = 0
    /\ scans = <<>>
    /\ appended = <<>>
    /\ session = 1
    /\ cancelled = FALSE
    /\ before = NoSnapshot
    /\ parked = NoInvocation

Init == InitOf(Variants)

Idle == pc = "idle"

(* A chat turn arrives: the handler runs up to its first await. *)
Receive(inputs, bound, sessions) ==
    /\ Idle
    /\ turns < bound
    \* a chat session sends its next request once its last one has ended
    \* or was cancelled
    /\ \E s \in sessions :
        /\ ~(InFlight(parked) /\ parked.session = s /\ ~parked.cancelled)
        /\ session' = s
    /\ cancelled' = FALSE
    /\ before' = Snapshot(globalState)
    /\ parked' = parked
    /\ \E req \in inputs[variant] :
        LET lc0 == [NoLocal EXCEPT !.userQuery = trim(req.prompt)]
        IN  /\ request' = req
            /\ IF variant \in {"switch", "detect"}
               THEN \* await vscode.lm.selectChatModels(...)
                    /\ pc' = "selectModels"
                    /\ local' = lc0
                    /\ intentAnalysis' = NoIntent
                    /\ stream' = <<>>
                    /\ calls' = <<>>
               ELSE LET lc == ReadState(globalState, lc0)
                    IN  IF IsExplicit(variant, req)
                        THEN LET ia == explicitIntent(req, lc.userQuery)
                             IN  /\ intentAnalysis' = ia
                                 /\ local' = pushCommand(lc, ia)
                                 /\ pc' = "updateHistory"
                                 /\ stream' = <<>>
                                 /\ calls' = <<>>
                        ELSE LET st == analyzeIntentCall(lc)
                             IN  /\ intentAnalysis' = NoIntent
                                 /\ local' = lc
                                 /\ pc' = st.pc
                                 /\ stream' = st.stream
                                 /\ calls' = st.calls
    /\ turns' = turns + 1
    /\ thrown' = FALSE
    /\ UNCHANGED <<variant, globalState, scans, appended, init>>

(* selectChatModels settles (first two builds): on success the handler    *)
(* reads the state and runs its switch; a rejection leaves the handler.   *)
ModelsSelected ==
    /\ pc = "selectModels"
    /\ \E ok \in BOOLEAN :
        IF ok
        THEN LET lc == ReadState(globalState, local)
                 d == detectIntent(lc.userQuery)
                 ia == IF variant = "detect"
                       THEN Intent(d.command, d.content, NoMetadata) ELSE NoIntent
                 st == IF variant = "detect"
                       THEN switchOnDetected(lc, ia) ELSE switchOnRequest(lc, request)
             IN  /\ local' = [lc EXCEPT !.case = st.case]
                 /\ intentAnalysis' = ia
                 /\ pc' = st.pc
                 /\ stream' = stream \o st.stream
                 /\ calls' = calls \o st.calls
                 /\ thrown' = thrown
        ELSE /\ thrown' = TRUE
             /\ pc' = "done"
             /\ UNCHANGED <<local, intentAnalysis, stream, calls>>
    /\ UNCHANGED <<variant, globalState, request, turns, scans, appended>>
    /\ UNCHANGED frame

(* analyze-intent answers: the answer is the intent, its command is pushed. *)
AnalyzeReturns(results) ==
    /\ pc = "analyzeIntent"
    /\ \E r \in results :
        /\ intentAnalysis' = r
        /\ local' = pushCommand(local, r)
    /\ pc' = "updateHistory"
    /\ UNCHANGED <<variant, globalState, request, stream, calls, thrown, turns,
                   scans, appended>>
    /\ UNCHANGED frame

(* analyze-intent fails: the outer catch reports it. *)
AnalyzeFails ==
    /\ pc = "analyzeIntent"
    /\ stream' = Append(stream, ErrorMsg("general"))
    /\ pc' = "done"
    /\ UNCHANGED <<variant, globalState, request, local, intentAnalysis, calls,
                   thrown, turns, scans, appended>>
    /\ UNCHANGED frame

(* await globalState.update("previousCommands", ...) settles; then the switch. *)
HistoryUpdated ==
    /\ pc = "updateHistory"
    /\ \E ok \in BOOLEAN :
        IF ok
        THEN LET st == switchOnIntent(local, intentAnalysis, variant = "combined")
             IN  /\ globalState' = [globalState EXCEPT
                                       !.previousCommands = historyToStore(local)]
                 /\ appended' = Append(appended, intentAnalysis.command)
                 /\ local' = [local EXCEPT !.case = st.case]
                 /\ pc' = st.pc
                 /\ stream' = stream \o st.stream
                 /\ calls' = calls \o st.calls
        ELSE /\ stream' = Append(stream, ErrorMsg("general"))
             /\ pc' = "done"
             /\ UNCHANGED <<globalState, appended, calls, local>>
    /\ UNCHANGED <<variant, request, intentAnalysis, thrown, turns, scans>>
    /\ UNCHANGED frame

(* The scan endpoint answers: extractDetailedScanResults, then its store. *)
ScanReturns(responses) ==
    /\ pc = "scan"
    /\ \E resp \in responses :
        local' = [local EXCEPT !.scanResponse = resp,
                               !.detailedScanResults = newDetailedScanResults(local, resp)]
    /\ pc' = "storeDetailed"
    /\ UNCHANGED <<variant, globalState, request, intentAnalysis, stream, calls,
                   thrown, turns, scans, appended>>
    /\ UNCHANGED frame

(* Mutant: a failed scan request is sent again. *)
ScanFailsRetrying ==
    /\ pc = "scan"
    /\ Len(calls) < 4
    /\ calls' = Append(calls, calls[Len(calls)])
    /\ UNCHANGED <<variant, globalState, pc, request, local, intentAnalysis, stream,
                   thrown, turns, scans, appended>>
    /\ UNCHANGED frame

(* The scan request fails: the inner catch reports it. *)
ScanFails ==
    /\ pc = "scan"
    /\ stream' = Append(stream, ErrorMsg("scan"))
    /\ pc' = "done"
    /\ UNCHANGED <<variant, globalState, request, local, intentAnalysis, calls,
                   thrown, turns, scans, appended>>
    /\ UNCHANGED frame

(* await globalState.update("detailedScanResults", ...) settles; then      *)
(* formatScanResults and its store.                                       *)
DetailedStored ==
    /\ pc = "storeDetailed"
    /\ \E ok \in BOOLEAN :
        IF ok
        THEN /\ globalState' = [globalState EXCEPT
                                   !.detailedScanResults = local.detailedScanResults]
             /\ local' = [local EXCEPT
                             !.scanResults = formatScanResults(local.scanResponse)]
             /\ scans' = Append(scans, [response |-> local.scanResponse,
                                         complete |-> FALSE,
                                         session |-> session,
                                         cancelled |-> cancelled])
             /\ pc' = "storeResults"
             /\ stream' = stream
        ELSE /\ stream' = Append(stream, ErrorMsg("scan"))
             /\ pc' = "done"
             /\ UNCHANGED <<globalState, local, scans>>
    /\ UNCHANGED <<variant, request, intentAnalysis, calls, thrown, turns, appended>>
    /\ UNCHANGED frame

(* await globalState.update("scanResults", ...) settles; then the list.    *)
ResultsStored ==
    /\ pc = "storeResults"
    /\ \E ok \in BOOLEAN :
        IF ok
        THEN /\ globalState' = [globalState EXCEPT !.scanResults = local.scanResults]
             /\ stream' = Append(stream, Msg("results", "numbered"))
             /\ scans' = [scans EXCEPT ![Len(scans)].complete = TRUE]
        ELSE /\ stream' = Append(stream, ErrorMsg("scan"))
             /\ UNCHANGED <<globalState, scans>>
    /\ pc' = "done"
    /\ UNCHANGED <<variant, request, local, intentAnalysis, calls, thrown, turns,
                   appended>>
    /\ UNCHANGED frame

(* The fix / explain endpoint answers. *)
QueryReturns ==
    /\ pc = "query"
    /\ \E response \in QueryResponses :
        /\ local' = [local EXCEPT !.apiResponse = response]
        /\ stream' = Append(stream, IF ~response.object
                                    THEN ErrorMsg("invalid-response")
                                    ELSE formatAccessibilityResponse(response))
    /\ pc' = "done"
    /\ UNCHANGED <<variant, globalState, request, intentAnalysis, calls,
                   thrown, turns, scans, appended>>
    /\ UNCHANGED frame

(* The fix / explain request fails. *)
QueryFails ==
    /\ pc = "query"
    /\ stream' = Append(stream, ErrorMsg("request-failed"))
    /\ pc' = "done"
    /\ UNCHANGED <<variant, globalState, request, local, intentAnalysis, calls,
                   thrown, turns, scans, appended>>
    /\ UNCHANGED frame

(* The timer of the request in flight expires before an answer came:      *)
(* axios rejects, the client function rethrows, the handler's catch       *)
(* around the request reports it.                                         *)
TimesOut ==
    /\ TIMEOUT > 0
    /\ pc \in {"analyzeIntent", "scan", "query"}
    /\ stream' = Append(stream, ErrorMsg(CASE pc = "analyzeIntent" -> "general"
                                           [] pc = "scan" -> "scan"
                                           [] pc = "query" -> "request-failed"))
    /\ pc' = "done"
    /\ UNCHANGED <<variant, globalState, request, local, intentAnalysis, calls,
                   thrown, turns, scans, appended>>
    /\ UNCHANGED frame

(* The handler returns (or its promise rejects): its locals are gone and  *)
(* the participant waits for the next request.                            *)
Return ==
    /\ pc = "done"
    /\ pc' = "idle"
    /\ request' = Request(NoCommand, <<>>)
    /\ local' = NoLocal
    /\ intentAnalysis' = NoIntent
    /\ stream' = <<>>
    /\ calls' = <<>>
    /\ thrown' = FALSE
    /\ session' = 1
    /\ cancelled' = FALSE
    /\ before' = NoSnapshot
    /\ UNCHANGED <<variant, globalState, turns, scans, appended, parked, init>>

(* The user stops the turn while a request of it is in flight: the token   *)
(* the handler was given is cancelled.  The handler never reads the token. *)
Cancel ==
    /\ pc \in {"analyzeIntent", "scan", "query"}
    /\ ~cancelled
    /\ cancelled' = TRUE
    /\ UNCHANGED <<variant, globalState, pc, request, local, intentAnalysis,
                   stream, calls, thrown, turns, scans, appended, session,
                   before, parked, init>>

(* The running invocation waits at an await (or is over) and the event     *)
(* loop runs the other invocation.                                        *)
Yield ==
    /\ ~(pc = "idle" /\ parked.pc = "idle")
    /\ parked' = Invocation(pc, request, local, intentAnalysis, stream, calls,
                            thrown, session, cancelled, before)
    /\ pc' = parked.pc
    /\ request' = parked.request
    /\ local' = parked.local
    /\ intentAnalysis' = parked.intentAnalysis
    /\ stream' = parked.stream
    /\ calls' = parked.calls
    /\ thrown' = parked.thrown
    /\ session' = parked.session
    /\ cancelled' = parked.cancelled
    /\ before' = parked.before
    /\ UNCHANGED <<variant, globalState, turns, scans, appended, init>>

Next ==
    \/ Receive(MainInputs, MaxTurns, {1})
    \/ ModelsSelected
    \/ AnalyzeReturns(IntentResults)
    \/ AnalyzeFails
    \/ HistoryUpdated
    \/ ScanReturns(ScanResponses)
    \/ ScanFails
    \/ DetailedStored
    \/ ResultsStored
    \/ QueryReturns
    \/ QueryFails
    \/ Return

Spec == Init /\ [][Next]_vars

----------------------------------------------------------------------------
(* Long conversations with the two builds that keep a command history:    *)
(* turns that end in guidance, so that only the history grows.            *)

HistInputs ==
    [v \in Variants |->
        IF v = "combined" THEN {Request(c, <<>>) : c \in {"fix", "explain"}}
        ELSE {Request(NoCommand, <<"how">>)}]

HistResults == {Intent("fix", <<"fix">>, NoMetadata), Intent("explain", <<>>, NoMetadata)}

InitHistory == InitOf({"analyze", "combined"})

NextHistory ==
    \/ Receive(HistInputs, MaxHistTurns, {1})
    \/ AnalyzeReturns(HistResults)
    \/ AnalyzeFails
    \/ HistoryUpdated
    \/ Return

SpecHistory == InitHistory /\ [][NextHistory]_vars

----------------------------------------------------------------------------
(* The detectIntent build on every utterance of up to MaxUtterLen atoms.   *)

DetectAtoms == {Space, "HTTP://", "a.com", "fix", "prefix", "how", "2", "3", "#"}

RECURSIVE SeqsUpTo(_, _)
SeqsUpTo(A, n) ==
    IF n = 0 THEN {<<>>}
    ELSE LET shorter == SeqsUpTo(A, n - 1)
         IN  shorter \cup {Append(u, a) : u \in shorter, a \in A}

Utterances == SeqsUpTo(DetectAtoms, MaxUtterLen)

DetectInputs == [v \in Variants |-> {Request(NoCommand, u) : u \in Utterances}]

DetectResponses == {r \in ScanResponses : r.scan_result = "three"}

InitDetect == InitOf({"detect"})

NextDetect ==
    \/ Receive(DetectInputs, MaxDetectTurns, {1})
    \/ ModelsSelected
    \/ ScanReturns(DetectResponses)
    \/ ScanFails
    \/ DetailedStored
    \/ ResultsStored
    \/ QueryReturns
    \/ QueryFails
    \/ Return

SpecDetect == InitDetect /\ [][NextDetect]_vars

----------------------------------------------------------------------------
(* The combined build called while an earlier call of it still waits: two  *)
(* chat sessions, or one session whose user stopped a turn and sent the   *)
(* next.  Both invocations work on the one globalState of the extension.  *)

Sessions == {1, 2}

SharedInputs ==
    [v \in Variants |-> {Request("scan", <<"a.com">>), Request(NoCommand, <<"how">>)}]

SharedResults == {Intent("fix", <<>>, [NoMetadata EXCEPT !.issue_number = Some(1)])}

SharedResponses == {r \in ScanResponses : r.scan_result \in {"one", "two"}}

InitShared ==
    /\ InitOf({"combined"})
    /\ Configured(globalState.apiUrl, globalState.apiKey)

NextShared ==
    \/ Receive(SharedInputs, MaxSharedTurns, Sessions)
    \/ AnalyzeReturns(SharedResults)
    \/ AnalyzeFails
    \/ HistoryUpdated
    \/ ScanReturns(SharedResponses)
    \/ ScanFails
    \/ DetailedStored
    \/ ResultsStored
    \/ QueryReturns
    \/ QueryFails
    \/ Return
    \/ Cancel
    \/ Yield

SpecShared == InitShared /\ [][NextShared]_vars

----------------------------------------------------------------------------
(* The builds whose only awaits are requests of the API client and state   *)
(* updates, with time passing: a request that is not answered runs into    *)
(* its timeout, and a state update settles.  That an answer comes at all   *)
(* is not assumed.                                                        *)

LiveInputs ==
    [v \in Variants |->
        IF v = "combined"
        THEN {Request("scan", <<"a.com">>), Request("explain", <<"how">>),
              Request(NoCommand, <<"how">>)}
        ELSE {Request(NoCommand, <<"how">>)}]

LiveResults ==
    { Intent("scan", <<>>, [NoMetadata EXCEPT !.url = Some(<<"https://", "a.com">>)]),
      Intent("fix", <<>>, [NoMetadata EXCEPT !.issue_number = Some(1)]),
      Intent("chat", <<"how">>, NoMetadata) }

LiveResponses == {r \in ScanResponses : r.scan_result = "one"}

InitLive ==
    /\ InitOf({"analyze", "combined"})
    /\ Configured(globalState.apiUrl, globalState.apiKey)

NextLive ==
    \/ Receive(LiveInputs, MaxLiveTurns, {1})
    \/ AnalyzeReturns(LiveResults)
    \/ AnalyzeFails
    \/ HistoryUpdated
    \/ ScanReturns(LiveResponses)
    \/ ScanFails
    \/ DetailedStored
    \/ ResultsStored
    \/ QueryReturns
    \/ QueryFails
    \/ TimesOut
    \/ Return

SpecLive ==
    /\ InitLive
    /\ [][NextLive]_vars
    /\ WF_vars(TimesOut)
    /\ WF_vars(HistoryUpdated)
    /\ WF_vars(DetailedStored)
    /\ WF_vars(ResultsStored)

----------------------------------------------------------------------------
(* Initialization running beside the turns *)

(* The values of the setting openApiKey. *)
OpenApiKeys == {"", "sk-key"}

(* activate: initializeExtension(context) is called and not awaited, then *)
(* the participant is created.  The call runs to its first await: with an *)
(* API key in the settings it stores both keys and stands at the health   *)
(* check, without one it stands at the input box with the store as an     *)
(* earlier run left it (empty on the first run).                          *)
activate(builds) ==
    /\ variant \in builds
    /\ \E old \in Configs, openApiKey \in OpenApiKeys :
        IF openApiKey # ""
        THEN /\ globalState = Store([apiUrl |-> apiEndPoint, apiKey |-> openApiKey])
             /\ init = Initialization("checkApiHealth", apiEndPoint, openApiKey, old)
        ELSE /\ globalState = Store(old)
             /\ init = Initialization("showInputBox", apiEndPoint, "", old)
    /\ pc = "idle"
    /\ request = Request(NoCommand, <<>>)
    /\ local = NoLocal
    /\ intentAnalysis = NoIntent
    /\ stream = <<>>
    /\ calls = <<>>
    /\ thrown = FALSE
    /\ turns = 0
    /\ scans = <<>>
    /\ appended = <<>>
    /\ session = 1
    /\ cancelled = FALSE
    /\ before = NoSnapshot
    /\ parked = NoInvocation

(* What no step of initializeExtension touches. *)
handler == <<variant, pc, request, local, intentAnalysis, stream, calls, thrown,
             turns, scans, appended, session, cancelled, before, parked>>

(* await showInputBox(...) settles.  With an input the key goes to the    *)
(* settings first; without one apiUrl and the empty apiKey are stored.    *)
InputBoxAnswered ==
    /\ init.pc = "showInputBox"
    /\ \E input \in OpenApiKeys :
        IF input # ""
        THEN /\ init' = [init EXCEPT !.pc = "configUpdate", !.apiKey = input]
             /\ globalState' = globalState
        ELSE /\ init' = [init EXCEPT !.pc = "checkApiHealth"]
             /\ globalState' = [globalState EXCEPT !.apiUrl = init.apiUrl,
                                                   !.apiKey = init.apiKey]
    /\ UNCHANGED handler

(* await config.update("openApiKey", input, Global) settles: then the      *)
(* updates of apiKey and apiUrl; a rejection leaves initializeExtension.  *)
ConfigUpdated ==
    /\ init.pc = "configUpdate"
    /\ \E ok \in BOOLEAN :
        IF ok
        THEN /\ init' = [init EXCEPT !.pc = "checkApiHealth"]
             /\ globalState' = [globalState EXCEPT !.apiUrl = init.apiUrl,
                                                   !.apiKey = init.apiKey]
        ELSE /\ init' = [init EXCEPT !.pc = "failed"]
             /\ globalState' = globalState
    /\ UNCHANGED handler

(* await checkApiHealth(apiUrl, context) settles, healthy or not. *)
HealthChecked ==
    /\ init.pc = "checkApiHealth"
    /\ init' = [init EXCEPT !.pc = "finished"]
    /\ UNCHANGED globalState
    /\ UNCHANGED handler

InitInputs ==
    [v \in Variants |->
        IF v = "combined"
        THEN {Request("scan", <<"a.com">>), Request("explain", <<"how">>),
              Request(NoCommand, <<"how">>)}
        ELSE {Request(NoCommand, <<"how">>)}]

InitResults ==
    { Intent("scan", <<>>, [NoMetadata EXCEPT !.url = Some(<<"https://", "a.com">>)]),
      Intent("explain", <<>>, [NoMetadata EXCEPT !.topic = Some(<<"how">>)]) }

InitResponses == {r \in ScanResponses : r.scan_result = "one"}

NextInit ==
    \/ InputBoxAnswered
    \/ ConfigUpdated
    \/ HealthChecked
    \/ Receive(InitInputs, MaxInitTurns, {1})
    \/ AnalyzeReturns(InitResults)
    \/ AnalyzeFails
    \/ HistoryUpdated
    \/ ScanReturns(InitResponses)
    \/ ScanFails
    \/ DetailedStored
    \/ ResultsStored
    \/ QueryReturns
    \/ QueryFails
    \/ Return

SpecInit == activate({"analyze", "combined"}) /\ [][NextInit]_vars

----------------------------------------------------------------------------
(* What a finished turn shows *)

Done == pc = "done"
QueryCalls == {i \in 1..Len(calls) : calls[i].endpoint \in {"fix", "explain"}}
FixCalls == {i \in 1..Len(calls) : calls[i].endpoint = "fix"}
IntentCalls == {i \in 1..Len(calls) : calls[i].endpoint = "analyze-intent"}
EndsWithGuidance == stream # <<>> /\ stream[Len(stream)].kind = "guidance"

(* The last n elements of s, or all of s when it has fewer. *)
LastN(s, n) == LET k == Min(n, Len(s)) IN [i \in 1..k |-> s[Len(s) - k + i]]

(* The issue number the turn carries, None when it carries none: the      *)
(* parsed prompt, the first integer of the utterance, or the classifier's *)
(* issue_number.                                                          *)
IssueNumber ==
    CASE variant = "switch" -> parseInt(request.prompt)
      [] variant = "detect" -> issueMatch(intentAnalysis.content)
      [] OTHER -> intentAnalysis.metadata.issue_number

StoredViolations == globalState.detailedScanResults.violations

(* C1: the stored command history never has more than 10 entries. *)
HistoryAtMostTen == Len(globalState.previousCommands) <= 10

(* C1 witness: twelve commands were appended and ten are stored. *)
HistoryFullAfterTwelve ==
    Len(appended) >= 12 /\ Len(globalState.previousCommands) = 10

(* C2: the stored history is the last min(N, 10) of the N commands         *)
(* appended so far, in the order they were appended.                      *)
HistoryIsLastTenAppended == globalState.previousCommands = LastN(appended, 10)

(* C2 witness: fifteen commands were appended, not all the same, and the   *)
(* ten stored are the last ten.                                           *)
FifteenAppended ==
    /\ Len(appended) = 15
    /\ Len(globalState.previousCommands) = 10
    /\ appended[1] # appended[6]
    /\ globalState.previousCommands[1] = appended[6]

(* The violations of the most recent scan that stored both of its keys.   *)
RescanComplete == scans # <<>> /\ scans[Len(scans)].complete
LatestViolations ==
    extractDetailedScanResults(scans[Len(scans)].response).violations

(* C3: once a scan has replaced the record, a fix turn takes its violation *)
(* from the latest scan's violations only, and an issue number beyond     *)
(* their count ends in guidance without a fix request.                    *)
FixResolvesAgainstLatestScan ==
    (Done /\ local.case = "fix" /\ RescanComplete) =>
        /\ \A i \in FixCalls :
              /\ IsSome(IssueNumber)
              /\ Val(IssueNumber) \in 1..Len(LatestViolations)
              /\ calls[i].violation = LatestViolations[Val(IssueNumber)]
        /\ (IsSome(IssueNumber) /\ Val(IssueNumber) > Len(LatestViolations)) =>
              (EndsWithGuidance /\ QueryCalls = {})

(* C3 witness: scan A with two violations, scan B with one, then fix 2.    *)
StaleIssueRejected ==
    /\ Done /\ local.case = "fix"
    /\ Len(scans) >= 2
    /\ scans[Len(scans)].complete /\ scans[Len(scans) - 1].complete
    /\ Len(extractDetailedScanResults(scans[Len(scans) - 1].response).violations) >= 2
    /\ Len(LatestViolations) = 1
    /\ IssueNumber = Some(2)
    /\ EndsWithGuidance

(* C4: a fix turn with an issue number outside 1..len(violations) ends in  *)
(* guidance, throws nothing, asks the Q&A endpoint nothing and leaves the *)
(* stored scan record as the turn found it.                               *)
FixOutOfRangeIsGuidance ==
    (/\ Done /\ local.case = "fix"
     /\ IsSome(IssueNumber)
     /\ Val(IssueNumber) \notin 1..Len(StoredViolations)) =>
        /\ EndsWithGuidance
        /\ ~thrown
        /\ QueryCalls = {}
        /\ globalState.scanResults = local.scanResults
        /\ globalState.detailedScanResults = local.detailedScanResults

(* C4 witness: issue number len(violations)+1 after a scan with violations; *)
(* the other one: issue number 0.                                         *)
FixPastTheEndRejected ==
    /\ Done /\ local.case = "fix"
    /\ StoredViolations # <<>>
    /\ IssueNumber = Some(Len(StoredViolations) + 1)
    /\ EndsWithGuidance

(* C5: a fix turn with no stored scan results ends in the "scan first"     *)
(* guidance and asks the Q&A endpoint nothing.                            *)
FixWithoutScanAsksForScan ==
    (Done /\ local.case = "fix" /\ globalState.scanResults = <<>>) =>
        /\ stream = <<Guidance("scan-first")>>
        /\ QueryCalls = {}

(* C5 witness: such a turn that carried issue number 2. *)
FixTwoBeforeAnyScan ==
    /\ Done /\ local.case = "fix"
    /\ globalState.scanResults = <<>>
    /\ IssueNumber = Some(2)

(* C6: a turn with a slash command asks analyze-intent nothing and enters  *)
(* the case of that command.                                              *)
SlashCommandIsDispatched ==
    (Done /\ request.command \in SlashCommands) =>
        /\ IntentCalls = {}
        /\ local.case # "" => local.case = request.command

(* A prompt that is an integer and nothing else, and its value. *)
IsInteger(s) == s # <<>> /\ \A i \in 1..Len(s) : s[i] \in DigitAtoms

(* C7: in the combined build, /fix n with 1 <= n <= k after a scan that    *)
(* stored k violations asks the Q&A endpoint once, for violations[n-1].   *)
SlashFixQueriesViolation ==
    (/\ Done /\ variant = "combined" /\ local.case = "fix"
     /\ request.command = "fix"
     /\ RescanComplete
     /\ IsInteger(trim(request.prompt))
     /\ DigitsValue(trim(request.prompt)) \in 1..Len(LatestViolations)) =>
        /\ Cardinality(QueryCalls) = 1
        /\ \A i \in QueryCalls :
              /\ calls[i].endpoint = "fix"
              /\ calls[i].violation = LatestViolations[DigitsValue(trim(request.prompt))]

(* A prompt parseInt makes no number of: after leading spaces neither a   *)
(* digit nor a sign with a digit.                                         *)
LeadingSpaces(s) == {n \in 0..Len(s) : \A i \in 1..n : s[i] = Space}
NotANumber(s) ==
    LET n == CHOOSE m \in LeadingSpaces(s) : \A k \in LeadingSpaces(s) : k <= m
    IN  ~ \/ (n + 1 <= Len(s) /\ s[n + 1] \in DigitAtoms)
          \/ (n + 2 <= Len(s) /\ s[n + 1] = "-" /\ s[n + 2] \in DigitAtoms)

----------------------------------------------------------------------------
(* Heuristic resolution *)

(* The utterance as detectIntent normalizes it. *)
Normalized == trim(toLowerCase(request.prompt))

(* An http:// or https:// followed by non-whitespace starts at i. *)
UrlTokenAt(q, i) ==
    /\ q[i] \in {"http://", "https://"}
    /\ i + 1 <= Len(q)
    /\ q[i + 1] # Space
HasUrlToken(q) == \E i \in 1..Len(q) : UrlTokenAt(q, i)

(* The first such token: from its scheme up to the next whitespace. *)
FirstUrlToken(q) ==
    LET i == CHOOSE a \in 1..Len(q) :
                 UrlTokenAt(q, a) /\ \A b \in 1..(a - 1) : ~UrlTokenAt(q, b)
        j == CHOOSE e \in i..Len(q) :
                 /\ \A k \in i..e : q[k] # Space
                 /\ (e = Len(q) \/ q[e + 1] = Space)
    IN  SubSeq(q, i, j)

HasFixKeyword(q) ==
    \E i \in 1..Len(q) : q[i] \in {"fix", "issue", "problem", "error", "violation"}

(* A bare integer: the digits q[i..j] with no word character before or    *)
(* after them.                                                            *)
BareIntegerAt(q, i, j) ==
    /\ i <= j
    /\ \A k \in i..j : q[k] \in DigitAtoms
    /\ (i = 1 \/ ~EndsWord(q[i - 1]))
    /\ (j = Len(q) \/ ~StartsWord(q[j + 1]))
BareIntegers(q) ==
    {ij \in (1..Len(q)) \X (1..Len(q)) : BareIntegerAt(q, ij[1], ij[2])}
FirstBareInteger(q) ==
    LET ij == CHOOSE a \in BareIntegers(q) : \A b \in BareIntegers(q) : a[1] <= b[1]
    IN  DigitsValue(SubSeq(q, ij[1], ij[2]))

DetectRan == variant = "detect" /\ local.case # ""

(* C9: an utterance with an http(s):// token resolves to scan with the     *)
(* first such token of the normalized utterance, whatever else it holds.  *)
UrlTakesPrecedence ==
    (DetectRan /\ HasUrlToken(Normalized)) =>
        /\ intentAnalysis.command = "scan"
        /\ local.case = "scan"
        /\ intentAnalysis.content = FirstUrlToken(Normalized)

(* C9 witness: an utterance with a fix keyword, an integer and a URL in    *)
(* upper case went to scan.                                               *)
UrlBeatsFixKeyword ==
    /\ DetectRan /\ local.case = "scan"
    /\ HasFixKeyword(Normalized)
    /\ \E i \in 1..Len(Normalized) : Normalized[i] \in DigitAtoms
    /\ Normalized # request.prompt

(* C10: without a URL, a fix keyword or a bare integer resolves to fix;    *)
(* the issue asked about is the first bare integer, and without one the   *)
(* turn ends in guidance and asks the Q&A endpoint nothing.               *)
FixTakesFirstInteger ==
    (/\ DetectRan /\ Done
     /\ ~HasUrlToken(Normalized)
     /\ (HasFixKeyword(Normalized) \/ BareIntegers(Normalized) # {})) =>
        LET violations == local.detailedScanResults.violations
        IN  /\ intentAnalysis.command = "fix"
            /\ local.case = "fix"
            /\ BareIntegers(Normalized) = {} => (EndsWithGuidance /\ QueryCalls = {})
            /\ BareIntegers(Normalized) # {} =>
                  LET n == FirstBareInteger(Normalized)
                  IN  /\ \A i \in QueryCalls :
                            /\ calls[i].endpoint = "fix"
                            /\ n \in 1..Len(violations)
                            /\ calls[i].violation = violations[n]
                      /\ (/\ n \in 1..Len(violations)
                          /\ Len(local.scanResults) = Len(violations) + 1) =>
                            FixCalls # {}

(* C10 witness: "fix 3" after a scan with three violations asked about the *)
(* third.                                                                 *)
FixThreeSelectsThird ==
    /\ DetectRan /\ Done
    /\ Normalized = <<"fix", Space, "3">>
    /\ FixCalls # {}
    /\ \A i \in FixCalls : calls[i].violation = StoredViolations[3]

(* A fix keyword occurs in the utterance, as a word or inside one. *)
MentionsFixKeyword(q) ==
    \E i \in 1..Len(q) :
        q[i] \in {"fix", "issue", "problem", "error", "violation", "prefix"}

(* A "#" with a digit right after it. *)
HasHashNumber(q) == \E i \in 1..(Len(q) - 1) : q[i] = "#" /\ q[i + 1] \in DigitAtoms

(* What the fallback does with the normalized utterance: explain it, or    *)
(* ask for a topic when it is empty.                                      *)
ExplainsNormalized ==
    /\ intentAnalysis.command = "explain"
    /\ local.case = "explain"
    /\ intentAnalysis.content = Normalized
    /\ Normalized = <<>> => (stream = <<Guidance("no-topic")>> /\ QueryCalls = {})
    /\ Normalized # <<>> => calls = <<Call("explain", Normalized, NoViolation, <<>>)>>

(* C11 as stated: an utterance with no URL, no fix keyword and no bare     *)
(* integer resolves to explain with the trimmed, lowercased utterance as  *)
(* topic; an empty one ends in guidance without a Q&A request.            *)
NoSignalExplains ==
    (/\ DetectRan /\ Done
     /\ ~HasUrlToken(Normalized)
     /\ ~MentionsFixKeyword(Normalized)
     /\ BareIntegers(Normalized) = {}) =>
        ExplainsNormalized

(* C11: an utterance with no URL, no fix keyword, no "#" followed by a     *)
(* digit and no bare integer resolves to explain with the trimmed,        *)
(* lowercased utterance as topic; an empty one ends in guidance without a *)
(* Q&A request.                                                           *)
NoSignalNoHashExplains ==
    (/\ DetectRan /\ Done
     /\ ~HasUrlToken(Normalized)
     /\ ~MentionsFixKeyword(Normalized)
     /\ ~HasHashNumber(Normalized)
     /\ BareIntegers(Normalized) = {}) =>
        ExplainsNormalized

(* C11 witness: an utterance that trimming changes was sent on as topic. *)
TrimmedTopicExplained ==
    /\ DetectRan /\ Done
    /\ local.case = "explain"
    /\ Normalized # request.prompt
    /\ Normalized # <<>>
    /\ calls # <<>> /\ calls[1].text = Normalized

----------------------------------------------------------------------------
(* The stored scan record *)

(* The issues a response lists under one severity, in the response's order. *)
RECURSIVE IssuesOf(_, _)
IssuesOf(groups, sev) ==
    IF groups = <<>> THEN <<>>
    ELSE (IF Head(groups).severity = sev THEN Head(groups).issues ELSE <<>>)
         \o IssuesOf(Tail(groups), sev)

(* The issues of a response by severity: critical, serious, moderate, minor. *)
BySeverity(scanResponse) ==
    IF ~IsSome(scanResponse.raw_violations) THEN <<>>
    ELSE LET g == Val(scanResponse.raw_violations)
         IN  IssuesOf(g, "critical") \o IssuesOf(g, "serious")
             \o IssuesOf(g, "moderate") \o IssuesOf(g, "minor")

(* C12: the violations stored from a scan response are in the order        *)
(* critical, serious, moderate, minor, whatever the order of the keys in   *)
(* the response, and within a severity in the response's order.           *)
StoredInSeverityOrder ==
    RescanComplete => StoredViolations = BySeverity(scans[Len(scans)].response)

(* The list lines up with the violations: the summary first, then line n   *)
(* made of violation n.                                                   *)
LinesUp(results, violations) ==
    /\ Len(results) = Len(violations) + 1
    /\ \A n \in 1..Len(violations) : results[n + 1].text = violations[n].help

(* The response whose list was last shown to the user: that of the latest  *)
(* scan that stored both keys and wrote its numbered list.                *)
ShownScans == {i \in 1..Len(scans) : scans[i].complete}
LastShown == scans[CHOOSE i \in ShownScans : \A j \in ShownScans : j <= i].response

(* C13: at the end of a turn the stored list and the stored violations     *)
(* line up, and a fix request for issue n carries the issue the user was  *)
(* shown under number n.                                                  *)
FixUsesTheIssueShown ==
    /\ (pc \in {"idle", "done"} /\ globalState.scanResults # <<>>) =>
          LinesUp(globalState.scanResults, StoredViolations)
    /\ (Done /\ local.case = "fix") =>
          \A i \in FixCalls :
              /\ ShownScans # {}
              /\ IsSome(IssueNumber)
              /\ Val(IssueNumber) \in 1..Len(Entries(LastShown))
              /\ calls[i].violation = Entries(LastShown)[Val(IssueNumber)].issue

(* The two formatters on one response, whatever is stored. *)
FormattersLineUp ==
    \A r \in ScanResponses :
        LinesUp(formatScanResults(r), extractDetailedScanResults(r).violations)

----------------------------------------------------------------------------
(* Failures *)

(* C14: while the API key or the API base URL is empty, a turn issues no   *)
(* network request, whatever its command.                                 *)
UnconfiguredIssuesNoRequest ==
    ~Configured(globalState.apiUrl, globalState.apiKey) => calls = <<>>

(* The turn is over and a request of it failed: the scan request got no    *)
(* response, the analyze-intent request got none, or the fix / explain    *)
(* request failed or was answered with something that is no answer.       *)
ScanCalls == {i \in 1..Len(calls) : calls[i].endpoint = "scan"}
ScanCallFailed ==
    Done /\ ScanCalls # {} /\ local.scanResponse = NoResponse
IntentCallFailed ==
    Done /\ IntentCalls # {} /\ intentAnalysis = NoIntent
QueryCallFailed ==
    Done /\ QueryCalls # {} /\ stream[Len(stream)].kind = "error"
CallFailed == ScanCallFailed \/ IntentCallFailed \/ QueryCallFailed

(* C15: a turn one of whose requests failed leaves scanResults,            *)
(* detailedScanResults and previousCommands as they were when it arrived. *)
FailedCallLeavesStateUnchanged ==
    CallFailed => Snapshot(globalState) = before

(* C16: no turn ends with the handler's promise rejected, and a turn one   *)
(* of whose requests failed ends with an error or guidance message.       *)
NoErrorEscapes ==
    Done =>
        /\ ~thrown
        /\ CallFailed =>
              (stream # <<>> /\ stream[Len(stream)].kind \in {"error", "guidance"})

(* C17: within one turn each endpoint is requested at most once, and at    *)
(* most one of scan, fix and explain is requested at all.                 *)
EachEndpointAtMostOnce ==
    /\ Cardinality(IntentCalls) <= 1
    /\ Cardinality(ScanCalls) + Cardinality(QueryCalls) <= 1
    /\ Len(calls) <= 2

(* C17 witness: a turn whose scan request failed, after the classifier was *)
(* asked, ended with one request to each.                                 *)
FailedScanAskedOnce ==
    /\ ScanCallFailed
    /\ Cardinality(ScanCalls) = 1
    /\ Cardinality(IntentCalls) = 1
    /\ stream[Len(stream)] = ErrorMsg("scan")

----------------------------------------------------------------------------
(* Cancellation, interleaving and sessions *)

(* C18: a turn that was cancelled while its scan request was in flight     *)
(* stores nothing of the scan: no scan was stored by a cancelled turn.    *)
CancelledScanStoresNothing ==
    \A i \in 1..Len(scans) : ~scans[i].cancelled

(* C19: while an invocation is between reading the stored keys and its     *)
(* return, no other invocation of the same session is.                    *)
TurnsDoNotInterleave ==
    ~(/\ InFlight(parked)
      /\ pc \notin {"idle", "done"}
      /\ parked.session = session)

(* C20: a fix turn of a session that stored no scan finds no scan record:  *)
(* what another session scanned is not what it reads.                     *)
ScansOf(s) == {i \in 1..Len(scans) : scans[i].session = s}
SessionsShareNoRecord ==
    (Done /\ local.case = "fix" /\ ScansOf(session) = {}) =>
        /\ local.scanResults = <<>>
        /\ local.detailedScanResults = NoDetailedScanResults
        /\ FixCalls = {}

----------------------------------------------------------------------------
(* Termination *)

Pending == pc \notin {"idle", "done"}

(* Every turn ends, whatever the collaborators do. *)
EveryTurnEnds == Pending ~> Done

(* C21: every turn ends, and ends with something written to the stream: a  *)
(* result, guidance or an error message.                                  *)
EveryTurnEndsWithMessage == Pending ~> (Done /\ stream # <<>>)

----------------------------------------------------------------------------
(* Requests and responses of the Q&A endpoint *)

(* The topic an explain turn hands to queryAccessibilityApi. *)
ExplainTopic ==
    CASE variant = "switch" -> request.prompt
      [] variant = "detect" -> intentAnalysis.content
      [] OTHER -> OrElse(intentAnalysis.metadata.topic, intentAnalysis.content)

(* C22: every request to the fix or explain endpoint has the body          *)
(* {query: <the query string>}, and every non-empty topic of an explain   *)
(* turn, also one that begins with a brace, is sent that way.             *)
QueryBodyWrapsQuery ==
    /\ \A i \in QueryCalls : calls[i].body = Body("query", calls[i].text)
    /\ (Done /\ local.case = "explain" /\ ExplainTopic # <<>>) =>
          \E i \in QueryCalls : calls[i].body = Body("query", ExplainTopic)

(* A turn whose fix or explain request was answered by an object that     *)
(* lacks some of the four fields.                                         *)
FieldsMissing ==
    /\ Done /\ QueryCalls # {}
    /\ local.apiResponse.object
    /\ missingFields(local.apiResponse) # <<>>

(* C23: a fix or explain response that lacks some of the four fields ends  *)
(* the turn with one error message that names exactly the missing fields  *)
(* and no answer sections, and scanResults, detailedScanResults and       *)
(* previousCommands are as they were when the turn arrived.               *)
MissingFieldsIsValidationError ==
    FieldsMissing =>
        /\ stream = <<[ErrorMsg("missing-fields")
                          EXCEPT !.fields = missingFields(local.apiResponse)]>>
        /\ Snapshot(globalState) = before

----------------------------------------------------------------------------
(* Dispatch on the classifier's answer *)

(* The turn is past the switch on the command analyze-intent returned. *)
ClassifierDispatched ==
    /\ variant \in {"analyze", "combined"}
    /\ IntentCalls # {} /\ intentAnalysis # NoIntent
    /\ local.case # ""

(* The classifier's answer passed the checks of its case. *)
ClassifierOutputAccepted ==
    ScanCalls \cup QueryCalls # {} \/ \E i \in 1..Len(stream) : stream[i].kind = "error"

(* C24: after analyze-intent returned a result, scan is requested only     *)
(* with a URL that parses, fix only for an issue number within            *)
(* 1..Len(violations), explain only with a non-empty topic; every other   *)
(* answer of the classifier, a command outside scan, fix, explain         *)
(* included, ends the turn with guidance and without a scan or Q&A call.  *)
ClassifierOutputValidated ==
    ClassifierDispatched =>
        /\ \A i \in ScanCalls : UrlParses(calls[i].text)
        /\ \A i \in FixCalls :
              /\ IsSome(intentAnalysis.metadata.issue_number)
              /\ Val(intentAnalysis.metadata.issue_number) \in
                    1..Len(before.detailedScanResults.violations)
              /\ calls[i].violation =
                    before.detailedScanResults.violations[
                        Val(intentAnalysis.metadata.issue_number)]
        /\ \A i \in QueryCalls \ FixCalls : calls[i].text # <<>>
        /\ (Done /\ ~ClassifierOutputAccepted) => EndsWithGuidance

----------------------------------------------------------------------------
(* The stored scan record *)

(* C25: in every state, those between the two awaited updates of a scan    *)
(* turn included, the stored list and the stored violations are both      *)
(* empty or are the two renderings of one scan response, the list one     *)
(* entry longer than the violations.                                      *)
StoredPairAgrees ==
    \/ /\ globalState.scanResults = <<>>
       /\ globalState.detailedScanResults = NoDetailedScanResults
    \/ \E r \in ScanResponses :
          /\ globalState.scanResults = formatScanResults(r)
          /\ globalState.detailedScanResults = extractDetailedScanResults(r)
          /\ Len(globalState.scanResults) = Len(StoredViolations) + 1

----------------------------------------------------------------------------
(* Messages of a turn *)

(* C26: every turn that ends has written at least one message, also a turn *)
(* for which the classifier returned a command that is none of scan, fix, *)
(* explain.                                                               *)
EveryTurnWritesAMessage ==
    Done => stream # <<>>

----------------------------------------------------------------------------
(* The command history of a turn *)

KeepsHistory == variant \in {"analyze", "combined"}

(* The stored history is the one the turn found, with its command added.  *)
CommandAppended ==
    globalState.previousCommands =
        SliceLast(Append(before.previousCommands, intentAnalysis.command), HistoryKeep)

(* The update of previousCommands was awaited and succeeded. *)
HistoryStored == intentAnalysis # NoIntent /\ local.case # ""

----------------------------------------------------------------------------
(* Who writes the scan record *)

(* The turn ended with the numbered list of a scan. *)
ScanSucceeded ==
    Done /\ stream # <<>> /\ stream[Len(stream)] = Msg("results", "numbered")

(* C28: a turn that did not end as a successful scan (a fix turn, an       *)
(* explain turn, a rejected turn, a failed scan turn) leaves scanResults  *)
(* and detailedScanResults exactly as it found them.                      *)
OnlySuccessfulScanWrites ==
    (Done /\ ~ScanSucceeded) =>
        /\ globalState.scanResults = before.scanResults
        /\ globalState.detailedScanResults = before.detailedScanResults

(* C29: the previous_commands sent to analyze-intent are the last five     *)
(* entries, or all when there are fewer, of the history stored when the   *)
(* turn arrived, in order; the turn's own command is not among them.      *)
ContextIsLastFiveBefore ==
    \A i \in IntentCalls :
        calls[i].previous_commands = LastN(before.previousCommands, ContextKeep)

(* C29 witness: a turn that found seven or more stored commands, the last  *)
(* of them explain, was classified as fix and has stored its command; the *)
(* context it sent has five entries and ends with explain.                *)
ContextOfLongHistory ==
    /\ Done /\ IntentCalls # {} /\ HistoryStored
    /\ intentAnalysis.command = "fix"
    /\ Len(before.previousCommands) >= 7
    /\ \A i \in IntentCalls :
          /\ Len(calls[i].previous_commands) = ContextKeep
          /\ calls[i].previous_commands[ContextKeep] = "explain"

----------------------------------------------------------------------------
(* Turns beside initialization *)

(* A turn arrives: the handler is called and reads the store. *)
TurnArrives == pc = "idle" /\ pc' # "idle"

(* initializeExtension has stored apiUrl and apiKey. *)
KeysStored == init.pc \in {"checkApiHealth", "finished"}

(* The turn read an empty apiKey or apiUrl. *)
ReadNoKeys == pc # "idle" /\ (local.apiKey = "" \/ local.apiUrl = "")

(* A turn that read no keys sends no scan and no analyze-intent request,  *)
(* and its scan or intent analysis ends with the configuration error.     *)
NoKeysNoRequest ==
    ReadNoKeys =>
        /\ ScanCalls \cup IntentCalls = {}
        /\ (Done /\ ~IsExplicit(variant, request)) => stream = <<ErrorMsg("general")>>
        /\ (Done /\ local.case = "scan") =>
              stream = <<Msg("progress", "scanning"), ErrorMsg("scan")>>

(* A turn reads the keys the store held at activation until                *)
(* initializeExtension has stored its own, and those from then on.        *)
ReadsWhatIsStored ==
    TurnArrives =>
        IF KeysStored
        THEN local'.apiUrl = init.apiUrl /\ local'.apiKey = init.apiKey
        ELSE local'.apiUrl = init.old.apiUrl /\ local'.apiKey = init.old.apiKey

(* C30: turns are handled while initializeExtension is still running.  A   *)
(* turn that arrives before it has stored apiUrl and apiKey reads what    *)
(* the store held at activation (nothing on a first run); having read no  *)
(* key, its scan or intent analysis ends with the configuration error and *)
(* no request.  Every turn that arrives after the keys were stored, so    *)
(* every turn after initialization finished, reads the configured keys.   *)
TurnsBesideInitialization ==
    []NoKeysNoRequest /\ [][ReadsWhatIsStored]_vars

(* C30 witness: on a first run a slash scan arrived while the input box    *)
(* was open and read no keys; initialization has since stored the key and *)
(* finished; the turn ended with the scan error and no request.           *)
ScanBeforeKeyEntered ==
    /\ Done /\ local.case = "scan"
    /\ init.old = [apiUrl |-> "", apiKey |-> ""]
    /\ local.apiKey = "" /\ local.apiUrl = ""
    /\ init.pc = "finished" /\ globalState.apiKey = "sk-key"
    /\ calls = <<>>
    /\ stream = <<Msg("progress", "scanning"), ErrorMsg("scan")>>

====
